---- MODULE Spec2Model ----
(***************************************************************************)
(* rgrep: the command-line argument parser of src/main.rs as a state       *)
(* machine.  One run = one process: main builds CommandArgs, parse_args    *)
(* walks the argument list one loop iteration per step, main matches on    *)
(* the result.  Tokens are strings; the string operations of the code      *)
(* (starts_with, split('='), parse::<u32>, format!) are computed.          *)
(***************************************************************************)
EXTENDS Integers, Sequences, FiniteSets, TLC

(* ------------------------------ bounds -------------------------------- *)

\* largest number of tokens after the program name, for lists over Tokens
MaxArgs == 3

\* largest number of tokens after the program name, for lists over CoreTokens
MaxCoreArgs == 4

\* the tokens an argument list is drawn from: every registered option in
\* each form, unknown and malformed options, positionals, numbers
Tokens ==
    { "-i", "--ignore-case", "-A", "--after-context", "-B", "--before-context",
      "-h", "--help", "--after-context=2", "--foo", "-x", "--foo=1",
      "--foo=bar=baz", "--after-context=1=2", "needle", "a.txt", "2" }

\* the tokens of the longer lists
CoreTokens == { "-i", "--ignore-case", "-A", "-h", "needle", "a.txt", "2" }

\* args[0], the program invocation name
ProgName == "rgrep"

\* args is the program name followed by at most max tokens of toks
IsListOver(a, toks, max) ==
    \E n \in 0..max : \E t \in [1..n -> toks] : a = << ProgName >> \o t

\* largest number of tokens after a program name that looks like an option
MaxAltArgs == 2

\* a program invocation name that is spelled like an option
AltProgName == "--help"

IsAltList(a) ==
    \E n \in 0..MaxAltArgs : \E t \in [1..n -> CoreTokens] : a = << AltProgName >> \o t

\* args is one of the argument lists of the model
IsArgList(a) ==
    \/ IsListOver(a, Tokens, MaxArgs)
    \/ IsListOver(a, CoreTokens, MaxCoreArgs)
    \/ IsAltList(a)

(* --------------------------- string helpers --------------------------- *)

CharAt(s, i) == SubSeq(s, i, i)

\* str::starts_with
StartsWith(s, p) == Len(s) >= Len(p) /\ SubSeq(s, 1, Len(p)) = p

\* str::split('=').collect(): the pieces between the '=' signs, in order
RECURSIVE SplitEq(_)
SplitEq(s) ==
    LET eqs == { i \in 1..Len(s) : CharAt(s, i) = "=" }
    IN  IF eqs = {} THEN << s >>
        ELSE LET i == CHOOSE k \in eqs : \A j \in eqs : k <= j
             IN  << SubSeq(s, 1, i - 1) >> \o SplitEq(SubSeq(s, i + 1, Len(s)))

(* ------------------------------- u32 ---------------------------------- *)

\* a u32 is kept as two 16-bit halves << hi, lo >>, value hi * 2^16 + lo
Half == 65536

U32(n) == << n \div Half, n % Half >>

Digits == { "0", "1", "2", "3", "4", "5", "6", "7", "8", "9" }

DigitVal(c) ==
    CASE c = "0" -> 0 [] c = "1" -> 1 [] c = "2" -> 2 [] c = "3" -> 3
      [] c = "4" -> 4 [] c = "5" -> 5 [] c = "6" -> 6 [] c = "7" -> 7
      [] c = "8" -> 8 [] c = "9" -> 9

\* acc * 10 + d with wrapping arithmetic (modulo 2^32), never an overflow
MulAdd10_wrapping(acc, d) ==
    LET lo == acc[2] * 10 + d
        hi == acc[1] * 10 + (lo \div Half)
    IN  [ok |-> TRUE, v |-> << hi % Half, lo % Half >>]

\* acc * 10 + d on the halves; ok is FALSE when the result leaves 32 bits
MulAdd10(acc, d) ==
    LET lo == acc[2] * 10 + d
        hi == acc[1] * 10 + (lo \div Half)
    IN  [ok |-> hi < Half, v |-> << hi % Half, lo % Half >>]

RECURSIVE ParseDigits(_, _, _)
ParseDigits(s, i, acc) ==
    IF i > Len(s) THEN [ok |-> TRUE, v |-> acc]
    ELSE IF CharAt(s, i) \notin Digits THEN [ok |-> FALSE, v |-> U32(0)]
    ELSE LET r == MulAdd10(acc, DigitVal(CharAt(s, i)))
         IN  IF r.ok THEN ParseDigits(s, i + 1, r.v)
             ELSE [ok |-> FALSE, v |-> U32(0)]

\* value.parse::<u32>(): an optional '+', then one or more decimal digits,
\* the value at most 2^32 - 1; anything else is Err
ParseU32(s) ==
    IF Len(s) = 0 THEN [ok |-> FALSE, v |-> U32(0)]
    ELSE IF CharAt(s, 1) \in { "+", "-" } /\ Len(s) = 1
         THEN [ok |-> FALSE, v |-> U32(0)]
    ELSE IF CharAt(s, 1) = "+" THEN ParseDigits(s, 2, U32(0))
    ELSE ParseDigits(s, 1, U32(0))

(* ------------------------------ results ------------------------------- *)

\* Result<_, String> of the helpers, plus the process exit of requires_value:
\* kind is "Ok", "Err" or "Exit"; val is the Ok payload, msg the Err string,
\* ca the CommandArgs after the call, made the appliers called (in order)
Ok(val, ca, made)  == [kind |-> "Ok",   val |-> val,    msg |-> "",  ca |-> ca, made |-> made]
Err(msg, ca, made) == [kind |-> "Err",  val |-> "none", msg |-> msg, ca |-> ca, made |-> made]
Exit(ca, made)     == [kind |-> "Exit", val |-> "none", msg |-> "",  ca |-> ca, made |-> made]

Call(fn, option, value) == [fn |-> fn, option |-> option, value |-> value]

(* ------------------------------ the code ------------------------------ *)

option_error_string(option, value) ==
    "Option " \o option \o " got invalid value: " \o value

\* the lines print_help pushes onto help_string, one string per option line
Categories ==
    << [name |-> "Pattern selection and interpretation",
        options |-> << [short_form |-> "-i", long_form |-> "--ignore-case",
                        default_value |-> "false",
                        description |-> "ignore case distinctions in patterns and data"] >>],
       [name |-> "Context control",
        options |-> << [short_form |-> "-A", long_form |-> "--after-context=NUM",
                        default_value |-> "0",
                        description |-> "print NUM lines of trailing context"],
                       [short_form |-> "-B", long_form |-> "--before-context=NUM",
                        default_value |-> "0",
                        description |-> "print NUM lines of leading context"] >>] >>

OptionLine(o) ==
    "  " \o o.short_form \o ", " \o o.long_form \o "  " \o o.description
         \o "(default " \o o.default_value \o ")\n"

RECURSIVE OptionLines(_, _)
OptionLines(opts, i) ==
    IF i > Len(opts) THEN "" ELSE OptionLine(opts[i]) \o OptionLines(opts, i + 1)

RECURSIVE CategoryText(_)
CategoryText(i) ==
    IF i > Len(Categories) THEN ""
    ELSE Categories[i].name \o ":\n" \o OptionLines(Categories[i].options, 1)
         \o "\n" \o CategoryText(i + 1)

help_string ==
    "Usage: rgrep [OPTION..] PATTERN FILE [FILE..]\n"
    \o "Search for PATTERNS in eacn FILE.\n"
    \o "Example: rgrep -i 'hello world' menu.h main.c\n"
    \o "\n"
    \o CategoryText(1)

\* parse_flag matching the option with its dashes as well
parse_flag_dashed(option, ca) ==
    IF option \in { "i", "ignore-case", "-i", "--ignore-case" }
    THEN Ok("unit", [ca EXCEPT !.ignore_case = TRUE], << Call("parse_flag", option, "") >>)
    ELSE Err("Unexpected flag " \o option, ca, << Call("parse_flag", option, "") >>)

\* Flags are options that do not take a value
parse_flag(option, ca) ==
    IF option \in { "i", "ignore-case" }
    THEN Ok("unit", [ca EXCEPT !.ignore_case = TRUE], << Call("parse_flag", option, "") >>)
    ELSE Err("Unexpected flag " \o option, ca, << Call("parse_flag", option, "") >>)

\* parse_non_flag with the `_ =>` arm accepting the option silently
parse_non_flag_ignore_unknown(option, value, ca) ==
    LET made == << Call("parse_non_flag", option, value) >>
        r == ParseU32(value)
    IN  IF option \in { "A", "after-context" }
        THEN IF r.ok THEN Ok("unit", [ca EXCEPT !.after_context = r.v], made)
             ELSE Err(option_error_string(option, value), ca, made)
        ELSE IF option \in { "B", "before-context" }
        THEN IF r.ok THEN Ok("unit", [ca EXCEPT !.before_context = r.v], made)
             ELSE Err(option_error_string(option, value), ca, made)
        ELSE Ok("unit", ca, made)

\* parse_non_flag storing unwrap_or(0) before it reports a bad value
parse_non_flag_clears_on_error(option, value, ca) ==
    LET made == << Call("parse_non_flag", option, value) >>
        r == ParseU32(value)
    IN  IF option \in { "A", "after-context" }
        THEN IF r.ok THEN Ok("unit", [ca EXCEPT !.after_context = r.v], made)
             ELSE Err(option_error_string(option, value),
                      [ca EXCEPT !.after_context = U32(0)], made)
        ELSE IF option \in { "B", "before-context" }
        THEN IF r.ok THEN Ok("unit", [ca EXCEPT !.before_context = r.v], made)
             ELSE Err(option_error_string(option, value),
                      [ca EXCEPT !.before_context = U32(0)], made)
        ELSE Err("Unexpected option " \o option, ca, made)

\* Options take values
parse_non_flag(option, value, ca) ==
    LET made == << Call("parse_non_flag", option, value) >>
        r == ParseU32(value)
    IN  IF option \in { "A", "after-context" }
        THEN IF r.ok THEN Ok("unit", [ca EXCEPT !.after_context = r.v], made)
             ELSE Err(option_error_string(option, value), ca, made)
        ELSE IF option \in { "B", "before-context" }
        THEN IF r.ok THEN Ok("unit", [ca EXCEPT !.before_context = r.v], made)
             ELSE Err(option_error_string(option, value), ca, made)
        ELSE Err("Unexpected option " \o option, ca, made)

\* requires_value with the after-context arm answering Ok(false)
requires_value_A_is_flag(option) ==
    IF option \in { "-A", "--after-context" } THEN [kind |-> "Ok", val |-> FALSE, msg |-> ""]
    ELSE IF option \in { "-B", "--before-context" } THEN [kind |-> "Ok", val |-> TRUE, msg |-> ""]
    ELSE IF option \in { "-i", "--ignore-case" } THEN [kind |-> "Ok", val |-> FALSE, msg |-> ""]
    ELSE IF option \in { "-h", "--help" } THEN [kind |-> "Exit", val |-> FALSE, msg |-> ""]
    ELSE [kind |-> "Err", val |-> FALSE, msg |-> "Unexpected option " \o option]

\* requires_value without the "-h" | "--help" arm
requires_value_no_help(option) ==
    IF option \in { "-A", "--after-context" } THEN [kind |-> "Ok", val |-> TRUE, msg |-> ""]
    ELSE IF option \in { "-B", "--before-context" } THEN [kind |-> "Ok", val |-> TRUE, msg |-> ""]
    ELSE IF option \in { "-i", "--ignore-case" } THEN [kind |-> "Ok", val |-> FALSE, msg |-> ""]
    ELSE [kind |-> "Err", val |-> FALSE, msg |-> "Unexpected option " \o option]

\* Whether or not option is not flag; -h / --help print the help and exit(0)
requires_value(option) ==
    IF option \in { "-A", "--after-context" } THEN [kind |-> "Ok", val |-> TRUE, msg |-> ""]
    ELSE IF option \in { "-B", "--before-context" } THEN [kind |-> "Ok", val |-> TRUE, msg |-> ""]
    ELSE IF option \in { "-i", "--ignore-case" } THEN [kind |-> "Ok", val |-> FALSE, msg |-> ""]
    ELSE IF option \in { "-h", "--help" } THEN [kind |-> "Exit", val |-> FALSE, msg |-> ""]
    ELSE [kind |-> "Err", val |-> FALSE, msg |-> "Unexpected option " \o option]

\* args is the whole list, index the 0-based position of argument in it
parse_nonflag_or_flag(argument, args_length, index, args, ca) ==
    LET rv == requires_value(argument)
    IN  IF rv.kind = "Exit" THEN Exit(ca, << >>)
        ELSE IF rv.kind = "Err" THEN Err(rv.msg, ca, << >>)
        ELSE IF rv.val /\ index + 1 < args_length
        THEN LET r == parse_non_flag(argument, args[index + 2], ca)
             IN  IF r.kind = "Err" THEN r ELSE Ok("NONFLAG", r.ca, r.made)
        ELSE IF ~rv.val
        THEN LET r == parse_flag(argument, ca)
             IN  IF r.kind = "Err" THEN r ELSE Ok("FLAG", r.ca, r.made)
        ELSE Err("Option " \o argument \o " requires value but no value is passed", ca, << >>)

\* long_option with the `2 =>` arm taking every split of two or more pieces
long_option_first_two(arg, args, index, ca) ==
    LET split == SplitEq(arg)
    IN  IF Len(split) = 1
        THEN parse_nonflag_or_flag(arg, Len(args), index, args, ca)
        ELSE LET r == parse_non_flag(split[1], split[2], ca)
             IN  IF r.kind = "Err" THEN r ELSE Ok("EQ", r.ca, r.made)

\* the body of `if arg.starts_with("--")` in parse_args
long_option(arg, args, index, ca) ==
    LET split == SplitEq(arg)
    IN  IF Len(split) = 1
        THEN parse_nonflag_or_flag(arg, Len(args), index, args, ca)
        ELSE IF Len(split) = 2
        THEN LET r == parse_non_flag(split[1], split[2], ca)
             IN  IF r.kind = "Err" THEN r ELSE Ok("EQ", r.ca, r.made)
        ELSE Err("Option " \o arg \o " has more than one equal sign", ca, << >>)

\* the body of `else if arg.starts_with('-')` in parse_args
short_option(arg, args, index, ca) ==
    parse_nonflag_or_flag(arg, Len(args), index, args, ca)

\* how far one loop iteration moves index: `index += 1` at the end of the
\* body, and one more after an OptionType::NONFLAG
index_step(val) == IF val = "NONFLAG" THEN 2 ELSE 1

\* u32 Display: the decimal digits, without leading zeros
RECURSIVE FormatU32(_)
FormatU32(v) ==
    LET qhi == v[1] \div 10
        t   == (v[1] % 10) * Half + v[2]
        q   == << qhi, t \div 10 >>
        d   == SubSeq("0123456789", (t % 10) + 1, (t % 10) + 1)
    IN  IF q = << 0, 0 >> THEN d ELSE FormatU32(q) \o d

FormatBool(b) == IF b THEN "true" ELSE "false"

\* Vec<String> Debug: ["a", "b"] (the tokens of the model need no escaping)
RECURSIVE FormatFiles(_, _)
FormatFiles(files, i) ==
    IF i > Len(files) THEN ""
    ELSE (IF i > 1 THEN ", " ELSE "") \o "\"" \o files[i] \o "\""
         \o FormatFiles(files, i + 1)

(* ------------------------------- state -------------------------------- *)

VARIABLES
    args,          \* env::args().collect()
    command_args,  \* the CommandArgs main owns
    query_parsed,  \* parse_args: made true after query parsing finished
    index,         \* parse_args: 0-based position in args
    pc,            \* "parse": in the loop of parse_args; "returned": main is
                   \* about to match on args_result; "done": process ended
    args_result,   \* what parse_args returned
    exit_code,     \* the status the process ended with
    stdout,        \* what was printed, in order
    stderr,
    calls,         \* history: the calls of parse_flag / parse_non_flag so far
    query_writes   \* history: how many times command_args.query was assigned

vars == << args, command_args, query_parsed, index, pc, args_result,
           exit_code, stdout, stderr, calls, query_writes >>

NoResult == [kind |-> "None", msg |-> ""]

Init ==
    /\ IsArgList(args)
    /\ command_args = [files |-> << >>, query |-> "", after_context |-> U32(0),
                       before_context |-> U32(0), ignore_case |-> FALSE]
    /\ query_parsed = FALSE
    /\ index = 1
    /\ pc = "parse"
    /\ args_result = NoResult
    /\ exit_code = 0
    /\ stdout = << >>
    /\ stderr = << >>
    /\ calls = << >>
    /\ query_writes = 0

\* the token at the current index (Rust's args[index])
Arg == args[index + 1]

InLoop == pc = "parse" /\ index < Len(args)

\* Continue that notes the error and goes on with the next token
Continue_keeps_going(r) ==
    /\ command_args' = r.ca
    /\ calls' = calls \o r.made
    /\ IF r.kind = "Ok"
       THEN /\ index' = index + index_step(r.val)
            /\ UNCHANGED << pc, args_result, exit_code, stdout >>
       ELSE IF r.kind = "Err"
       THEN /\ args_result' = [kind |-> "Err", msg |-> r.msg]
            /\ index' = index + 1
            /\ UNCHANGED << pc, exit_code, stdout >>
       ELSE /\ stdout' = Append(stdout, help_string \o "\n")
            /\ exit_code' = 0
            /\ pc' = "done"
            /\ UNCHANGED << index, args_result >>
    /\ UNCHANGED << args, query_parsed, stderr, query_writes >>

\* what a loop iteration does with the outcome r of an option branch:
\* Ok goes on with the next token, Err returns from parse_args (the `?`),
\* Exit is print_help(); exit(0) inside requires_value
Continue(r) ==
    /\ command_args' = r.ca
    /\ calls' = calls \o r.made
    /\ IF r.kind = "Ok"
       THEN /\ index' = index + index_step(r.val)
            /\ UNCHANGED << pc, args_result, exit_code, stdout >>
       ELSE IF r.kind = "Err"
       THEN /\ args_result' = [kind |-> "Err", msg |-> r.msg]
            /\ pc' = "returned"
            /\ UNCHANGED << index, exit_code, stdout >>
       ELSE /\ stdout' = Append(stdout, help_string \o "\n")
            /\ exit_code' = 0
            /\ pc' = "done"
            /\ UNCHANGED << index, args_result >>
    /\ UNCHANGED << args, query_parsed, stderr, query_writes >>

\* CollectFile pushing only the tokens that do not look like options
CollectFile_skip_dashed ==
    /\ InLoop
    /\ query_parsed
    /\ command_args' = IF StartsWith(Arg, "-") THEN command_args
                       ELSE [command_args EXCEPT !.files = Append(@, Arg)]
    /\ index' = index + 1
    /\ UNCHANGED << args, query_parsed, pc, args_result, exit_code, stdout,
                    stderr, calls, query_writes >>

\* if query_parsed { command_args.files.push(arg.clone()) }
CollectFile ==
    /\ InLoop
    /\ query_parsed
    /\ command_args' = [command_args EXCEPT !.files = Append(@, Arg)]
    /\ index' = index + 1
    /\ UNCHANGED << args, query_parsed, pc, args_result, exit_code, stdout,
                    stderr, calls, query_writes >>

LongOption ==
    /\ InLoop
    /\ ~query_parsed
    /\ StartsWith(Arg, "--")
    /\ Continue(long_option(Arg, args, index, command_args))

ShortOption ==
    /\ InLoop
    /\ ~query_parsed
    /\ ~StartsWith(Arg, "--")
    /\ StartsWith(Arg, "-")
    /\ Continue(short_option(Arg, args, index, command_args))

\* ParseQuery without `query_parsed = true`
ParseQuery_no_flag ==
    /\ InLoop
    /\ ~query_parsed
    /\ ~StartsWith(Arg, "--")
    /\ ~StartsWith(Arg, "-")
    /\ command_args' = [command_args EXCEPT !.query = Arg]
    /\ query_writes' = query_writes + 1
    /\ index' = index + 1
    /\ UNCHANGED << args, query_parsed, pc, args_result, exit_code, stdout,
                    stderr, calls >>

\* ParseQuery leaving the iteration without `index += 1`
ParseQuery_no_advance ==
    /\ InLoop
    /\ ~query_parsed
    /\ ~StartsWith(Arg, "--")
    /\ ~StartsWith(Arg, "-")
    /\ command_args' = [command_args EXCEPT !.query = Arg]
    /\ query_parsed' = TRUE
    /\ query_writes' = query_writes + 1
    /\ UNCHANGED << args, index, pc, args_result, exit_code, stdout, stderr,
                    calls >>

\* else { command_args.query = arg.clone(); query_parsed = true; }
ParseQuery ==
    /\ InLoop
    /\ ~query_parsed
    /\ ~StartsWith(Arg, "--")
    /\ ~StartsWith(Arg, "-")
    /\ command_args' = [command_args EXCEPT !.query = Arg]
    /\ query_parsed' = TRUE
    /\ query_writes' = query_writes + 1
    /\ index' = index + 1
    /\ UNCHANGED << args, pc, args_result, exit_code, stdout, stderr, calls >>

\* LoopExit rejecting a list without a pattern or without a file
LoopExit_requires_pattern ==
    /\ pc = "parse"
    /\ ~(index < Len(args))
    /\ args_result' = IF query_parsed /\ command_args.files # << >>
                      THEN [kind |-> "Ok", msg |-> ""]
                      ELSE [kind |-> "Err", msg |-> "PATTERN and FILE are required"]
    /\ pc' = "returned"
    /\ UNCHANGED << args, command_args, query_parsed, index, exit_code,
                    stdout, stderr, calls, query_writes >>

\* the loop condition fails: Ok(())
LoopExit ==
    /\ pc = "parse"
    /\ ~(index < Len(args))
    /\ args_result' = [kind |-> "Ok", msg |-> ""]
    /\ pc' = "returned"
    /\ UNCHANGED << args, command_args, query_parsed, index, exit_code,
                    stdout, stderr, calls, query_writes >>

\* MainErr without the exit(1): main returns after the eprintln!
MainErr_no_exit ==
    /\ pc = "returned"
    /\ args_result.kind = "Err"
    /\ stderr' = Append(stderr, args_result.msg \o "\n")
    /\ exit_code' = 0
    /\ pc' = "done"
    /\ UNCHANGED << args, command_args, query_parsed, index, args_result,
                    stdout, calls, query_writes >>

\* Err(x) => { eprintln!("{}", x); exit(1); }
MainErr ==
    /\ pc = "returned"
    /\ args_result.kind = "Err"
    /\ stderr' = Append(stderr, args_result.msg \o "\n")
    /\ exit_code' = 1
    /\ pc' = "done"
    /\ UNCHANGED << args, command_args, query_parsed, index, args_result,
                    stdout, calls, query_writes >>

\* Ok(_) => start operation: four println!, then main returns (status 0)
MainOk ==
    /\ pc = "returned"
    /\ args_result.kind = "Ok"
    /\ stdout' = stdout \o
         << "Argument A is " \o FormatU32(command_args.after_context) \o "\n",
            "Argument B is " \o FormatU32(command_args.before_context) \o "\n",
            "Argument i is " \o FormatBool(command_args.ignore_case) \o "\n",
            "Will search " \o command_args.query \o " in files ["
               \o FormatFiles(command_args.files, 1) \o "]\n" >>
    /\ exit_code' = 0
    /\ pc' = "done"
    /\ UNCHANGED << args, command_args, query_parsed, index, args_result,
                    stderr, calls, query_writes >>

Next ==
    \/ CollectFile
    \/ LongOption
    \/ ShortOption
    \/ ParseQuery
    \/ LoopExit
    \/ MainErr
    \/ MainOk

Spec == Init /\ [][Next]_vars

\* the process keeps running until it ends: main is one sequential thread
SpecFair == Spec /\ WF_vars(Next)

(* ---------------------- the appliers on their own --------------------- *)

\* parse_flag and parse_non_flag called directly, one call after the other
\* on the same CommandArgs, with option names and values of every kind

\* largest number of calls in a row
MaxCalls == 2

UnitOptions == { "A", "after-context", "B", "before-context", "-A", "x" }

UnitFlags == { "i", "ignore-case", "-i" }

UnitValues ==
    { "0", "7", "007", "+7", "65536", "4294967295", "4294967296",
      "99999999999", "x", "" }

InitUnit ==
    /\ args = << ProgName >>
    /\ command_args = [files |-> << >>, query |-> "", after_context |-> U32(0),
                       before_context |-> U32(0), ignore_case |-> FALSE]
    /\ query_parsed = FALSE
    /\ index = 1
    /\ pc = "unit"
    /\ args_result = NoResult
    /\ exit_code = 0
    /\ stdout = << >>
    /\ stderr = << >>
    /\ calls = << >>
    /\ query_writes = 0

\* what a call leaves behind: the CommandArgs, the call, its Result
Returned(r) ==
    /\ command_args' = r.ca
    /\ calls' = calls \o r.made
    /\ args_result' = [kind |-> r.kind, msg |-> r.msg]
    /\ UNCHANGED << args, query_parsed, index, pc, exit_code, stdout, stderr,
                    query_writes >>

UnitNonFlag ==
    /\ pc = "unit"
    /\ Len(calls) < MaxCalls
    /\ \E option \in UnitOptions : \E value \in UnitValues :
         Returned(parse_non_flag(option, value, command_args))

UnitFlag ==
    /\ pc = "unit"
    /\ Len(calls) < MaxCalls
    /\ \E option \in UnitFlags : Returned(parse_flag(option, command_args))

NextUnit ==
    \/ UnitNonFlag
    \/ UnitFlag

SpecUnit == InitUnit /\ [][NextUnit]_vars

(* ----------------------- vocabulary of the claims --------------------- *)

\* a token that is an option marker / a positional
IsOptionToken(t) == StartsWith(t, "-")
IsPositional(t)  == ~IsOptionToken(t)

\* the tokens of s from position from on (1-based) are all positionals
AllPositional(s, from) == \A j \in from..Len(s) : IsPositional(s[j])

\* a non-negative integer written in decimal that fits the field
IsNumber(t) ==
    /\ Len(t) > 0
    /\ \A i \in 1..Len(t) : CharAt(t, i) \in Digits
    /\ ParseU32(t).ok

NumberValue(t) == ParseU32(t).v

\* the options that take their value from the following token
ValueOptions == { "-A", "-B", "--after-context", "--before-context" }

IgnoreCaseOptions == { "-i", "--ignore-case" }

HelpOptions == { "-h", "--help" }

\* the names of the documented options, without dashes
RegisteredNames ==
    { "i", "ignore-case", "A", "after-context", "B", "before-context", "h", "help" }

EqualSigns(t) == Cardinality({ i \in 1..Len(t) : CharAt(t, i) = "=" })

\* the position (1-based, in s) of the first token from position i on that is
\* neither an option token nor the value of a value-taking option; 0 if none
RECURSIVE FirstPositionalFrom(_, _)
FirstPositionalFrom(s, i) ==
    IF i > Len(s) THEN 0
    ELSE IF IsPositional(s[i]) THEN i
    ELSE IF s[i] \in ValueOptions THEN FirstPositionalFrom(s, i + 2)
    ELSE FirstPositionalFrom(s, i + 1)

\* the parse has taken at least one step
Started == pc # "parse" \/ index > 1

Defaults ==
    [files |-> << >>, query |-> "", after_context |-> U32(0),
     before_context |-> U32(0), ignore_case |-> FALSE]

(* ------------------------------- claims ------------------------------- *)

\* C1 (as claimed): for a decimal number n, each of --after-context=n, -A n and
\* --after-context n, placed first and followed by positionals only, ends the
\* run with parse_args Ok and after_context = n.
C1_AfterContextForms ==
    \A n \in Tokens :
        (/\ IsNumber(n)
         /\ pc = "done"
         /\ \/ Len(args) >= 2 /\ args[2] = "--after-context=" \o n
                              /\ AllPositional(args, 3)
            \/ Len(args) >= 3 /\ args[2] \in { "-A", "--after-context" }
                              /\ args[3] = n /\ AllPositional(args, 4))
        => /\ args_result.kind = "Ok"
           /\ command_args.after_context = NumberValue(n)

\* the lists [prog, P, -A, n, F] of C2
C2_Case ==
    /\ Len(args) = 5
    /\ IsPositional(args[2])
    /\ args[3] = "-A"
    /\ IsNumber(args[4])
    /\ IsPositional(args[5])

\* C2 (as claimed): for [prog, P, -A, n, F] the result has query = P,
\* files = [F] and after_context = n.
C2_OptionAfterPattern ==
    (C2_Case /\ pc = "done")
    => /\ args_result.kind = "Ok"
       /\ command_args.query = args[2]
       /\ command_args.files = << args[5] >>
       /\ command_args.after_context = NumberValue(args[4])

\* C2 (amended): for [prog, P, -A, n, F] the result has query = P,
\* files = [-A, n, F] and after_context = 0: an option token after the pattern
\* is appended to files like any other token.
C2_OptionAfterPatternIsFile ==
    (C2_Case /\ pc = "done")
    => /\ args_result.kind = "Ok"
       /\ exit_code = 0
       /\ command_args.query = args[2]
       /\ command_args.files = << "-A", args[4], args[5] >>
       /\ command_args.after_context = U32(0)

C2_Witness == C2_Case /\ pc = "done" /\ Len(command_args.files) = 3

\* C3 (as claimed): [prog, -i, P, F1, ..., Fk] with positional P and Fi ends
\* Ok with query = P, files = [F1..Fk], ignore_case, both contexts 0.
C3_IgnoreCaseThenPattern ==
    (/\ Len(args) >= 3
     /\ args[2] = "-i"
     /\ AllPositional(args, 3)
     /\ pc = "done")
    => /\ args_result.kind = "Ok"
       /\ command_args.query = args[3]
       /\ command_args.files = SubSeq(args, 4, Len(args))
       /\ command_args.ignore_case = TRUE
       /\ command_args.after_context = U32(0)
       /\ command_args.before_context = U32(0)

\* C4 (as claimed, the idempotence half): once the parse has moved past a
\* leading -i or --ignore-case, ignore_case is true, and it stays true.
C4_IgnoreCaseSet ==
    (/\ Len(args) >= 2
     /\ args[2] \in IgnoreCaseOptions
     /\ Started)
    => command_args.ignore_case = TRUE

\* the tokens the loop has consumed after the one at position q (1-based)
ConsumedAfter(q) == SubSeq(args, q + 1, index)

\* C5: query is assigned at most once, to the first token that is neither an
\* option token nor an option's value; the positional tokens consumed after it
\* are in files, in command-line order; an Ok parse has consumed every token.
C5_QueryIsFirstPositional ==
    /\ query_writes <= 1
    /\ (query_writes = 1) <=> query_parsed
    /\ ~query_parsed => command_args.query = "" /\ command_args.files = << >>
    /\ query_parsed =>
         LET q == FirstPositionalFrom(args, 2)
         IN  /\ q # 0
             /\ q <= index
             /\ command_args.query = args[q]
             /\ SelectSeq(command_args.files, IsPositional)
                  = SelectSeq(ConsumedAfter(q), IsPositional)
    /\ args_result.kind = "Ok" => index = Len(args)

C5_Witness ==
    /\ pc = "done"
    /\ query_parsed
    /\ Len(SelectSeq(command_args.files, IsPositional)) >= 2
    /\ command_args.files[1] # command_args.files[2]

\* C6 (as claimed): -A s with s not a number fails with the invalid-value
\* error naming option A and value s, and leaves CommandArgs at its defaults.
C6_InvalidValue ==
    (/\ Len(args) >= 3
     /\ args[2] = "-A"
     /\ ~ParseU32(args[3]).ok
     /\ Started)
    => /\ args_result.kind = "Err"
       /\ args_result.msg \in { option_error_string("A", args[3]),
                                option_error_string("-A", args[3]) }
       /\ command_args = Defaults

\* the loop is at a value-taking option that is the last token
C7_Case ==
    /\ InLoop
    /\ ~query_parsed
    /\ Arg \in ValueOptions
    /\ index + 1 = Len(args)

MissingValueError(t) == "Option " \o t \o " requires value but no value is passed"

OptionDashes(t) == IF StartsWith(t, "--") THEN "--" ELSE "-"
OptionName(t) ==
    IF StartsWith(t, "--")
    THEN LET rest == SubSeq(t, 3, Len(t))
             eqs  == { i \in 1..Len(rest) : CharAt(rest, i) = "=" }
         IN  IF eqs = {} THEN rest
             ELSE SubSeq(rest, 1, (CHOOSE k \in eqs : \A j \in eqs : k <= j) - 1)
    ELSE SubSeq(t, 2, Len(t))

\* what follows the first `=` of a token
InlineValue(t) ==
    LET eqs == { i \in 1..Len(t) : CharAt(t, i) = "=" }
    IN  SubSeq(t, (CHOOSE k \in eqs : \A j \in eqs : k <= j) + 1, Len(t))

\* an option token in bare long, short or --name=value form whose name is
\* not a documented one
IsUnknownOption(t) ==
    /\ IsOptionToken(t)
    /\ OptionName(t) \notin RegisteredNames
    /\ StartsWith(t, "--") => EqualSigns(t) <= 1

UnknownOptionError(t) == "Unexpected option " \o OptionDashes(t) \o OptionName(t)

C8_Case == InLoop /\ ~query_parsed /\ IsUnknownOption(Arg)

\* C8: an unknown option token met before the pattern makes the parse return
\* the unknown-option error; the token after it is not consumed (the index
\* stays, no applier sees it), and no field of CommandArgs changes.
C8_UnknownOption ==
    [][C8_Case =>
         /\ args_result' = [kind |-> "Err", msg |-> UnknownOptionError(Arg)]
         /\ pc' = "returned"
         /\ command_args' = command_args
         /\ index' = index
         /\ query_parsed' = query_parsed
         /\ \/ calls' = calls
            \/ /\ StartsWith(Arg, "--") /\ EqualSigns(Arg) = 1
               /\ calls' = Append(calls, Call("parse_non_flag",
                                              "--" \o OptionName(Arg),
                                              InlineValue(Arg)))]_vars

C8_Witness ==
    /\ pc = "done"
    /\ exit_code = 1
    /\ index = 1
    /\ Len(args) >= 3
    /\ IsUnknownOption(args[2])
    /\ EqualSigns(args[2]) = 1
    /\ IsPositional(args[3])
    /\ command_args = Defaults

C9_Case ==
    /\ InLoop
    /\ ~query_parsed
    /\ StartsWith(Arg, "--")
    /\ EqualSigns(Arg) > 1

\* C9: a token beginning with -- that holds more than one `=`, met before the
\* pattern, makes the parse return the "has more than one equal sign" error,
\* whatever its name; neither applier is called and no field changes.
C9_MalformedToken ==
    [][C9_Case =>
         /\ args_result' = [kind |-> "Err",
                            msg |-> "Option " \o Arg \o " has more than one equal sign"]
         /\ pc' = "returned"
         /\ calls' = calls
         /\ command_args' = command_args]_vars

C9_Witness ==
    /\ pc = "done"
    /\ exit_code = 1
    /\ index = 1
    /\ Len(args) >= 2
    /\ StartsWith(args[2], "--")
    /\ EqualSigns(args[2]) > 1
    /\ OptionName(args[2]) \in RegisteredNames
    /\ calls = << >>

C10_Case == InLoop /\ ~query_parsed /\ Arg \in HelpOptions

\* C10: when the loop meets -h or --help as an option token, that step prints
\* the help and ends the process with status 0: no applier is called, no field
\* changes, no error is produced, and no step follows the end of the process,
\* so the tokens after it are never looked at.
C10_HelpExits ==
    /\ [][C10_Case =>
            /\ pc' = "done"
            /\ exit_code' = 0
            /\ stdout' = Append(stdout, help_string \o "\n")
            /\ stderr' = stderr
            /\ args_result' = NoResult
            /\ calls' = calls
            /\ command_args' = command_args
            /\ index' = index]_vars
    /\ [][pc # "done"]_vars

C10_Witness ==
    /\ pc = "done"
    /\ exit_code = 0
    /\ args_result = NoResult
    /\ Len(args) >= 3
    /\ args[2] \in HelpOptions
    /\ args[3] \in { "--foo", "--foo=bar=baz", "-A" }
    /\ stdout = << help_string \o "\n" >>

\* sub occurs in s
Contains(s, sub) ==
    \E i \in 1..(Len(s) - Len(sub) + 1) : SubSeq(s, i, i + Len(sub) - 1) = sub

\* the process ended in print_help(); exit(0)
HelpShown == pc = "done" /\ args_result = NoResult

\* the documented options: short form, long form, default ("" when none)
DocumentedOptions ==
    { << "-i", "--ignore-case", "false" >>,
      << "-A", "--after-context", "0" >>,
      << "-B", "--before-context", "0" >>,
      << "-h", "--help", "" >> }

\* C11 (as claimed): the help text printed for -h names each of the four
\* documented options in its short and its long form, and gives the default
\* of -i, -A and -B on the option's line.
C11_HelpListsAllOptions ==
    HelpShown =>
        /\ Len(stdout) = 1
        /\ \A o \in DocumentedOptions :
             /\ Contains(stdout[1], o[1] \o ", ")
             /\ Contains(stdout[1], o[2])
             /\ o[3] # "" =>
                  \E i \in 1..Len(Categories) :
                    \E k \in 1..Len(Categories[i].options) :
                      LET line == OptionLine(Categories[i].options[k])
                      IN  /\ Contains(stdout[1], line)
                          /\ Contains(line, o[1] \o ", " \o o[2])
                          /\ Contains(line, "(default " \o o[3] \o ")")

\* the four println! of the `start operation` arm of main are on stdout
StartedOperation ==
    \E i \in 1..Len(stdout) : StartsWith(stdout[i], "Argument A is ")

\* C12: the exit status is decided by the outcome of the parse alone: 0
\* exactly when parse_args returned Ok or the help was displayed, 1 exactly
\* when it returned an error; after an error the `start operation` arm is
\* never reached (nothing is printed on stdout, the error is on stderr).
C12_ExitStatus ==
    /\ pc = "done" =>
         /\ exit_code \in { 0, 1 }
         /\ exit_code = 0 <=> (args_result.kind = "Ok" \/ HelpShown)
         /\ exit_code = 1 <=> args_result.kind = "Err"
         /\ args_result.kind = "Ok" <=> StartedOperation
    /\ args_result.kind = "Err" =>
         /\ ~StartedOperation
         /\ stdout = << >>
         /\ pc = "done" => stderr = << args_result.msg \o "\n" >>

C12_Witness ==
    /\ pc = "done"
    /\ exit_code = 1
    /\ args_result.kind = "Err"
    /\ Len(args) >= 3
    /\ IsPositional(args[3])

AfterContextNames == { "A", "after-context" }
BeforeContextNames == { "B", "before-context" }

\* the values parse_non_flag has parsed successfully so far for the options
\* named in names
ParsedFor(names) ==
    { ParseU32(calls[i].value).v :
        i \in { j \in 1..Len(calls) : /\ calls[j].fn = "parse_non_flag"
                                      /\ calls[j].option \in names
                                      /\ ParseU32(calls[j].value).ok } }

\* C13: after_context and before_context hold 0 or a value that a call of
\* parse_non_flag for that option parsed successfully; a call of
\* parse_non_flag that returns an error leaves every field of CommandArgs
\* as it was.
C13_ContextsFromParses ==
    /\ [](/\ command_args.after_context \in { U32(0) } \cup ParsedFor(AfterContextNames)
          /\ command_args.before_context \in { U32(0) } \cup ParsedFor(BeforeContextNames))
    /\ [][(/\ calls' # calls
           /\ calls'[Len(calls')].fn = "parse_non_flag"
           /\ args_result'.kind = "Err")
          => command_args' = command_args]_vars

C13_Witness ==
    /\ Len(calls) = 2
    /\ calls[1] = Call("parse_non_flag", "after-context", "65536")
    /\ calls[2] = Call("parse_non_flag", "A", "x")
    /\ args_result = [kind |-> "Err", msg |-> option_error_string("A", "x")]
    /\ command_args.after_context = << 1, 0 >>

\* msg is one of the errors the code produces for option token t
IsErrorOf(msg, t) ==
    \/ msg = "Unexpected option " \o SplitEq(t)[1]
    \/ msg = "Unexpected flag " \o t
    \/ msg = MissingValueError(t)
    \/ msg = "Option " \o t \o " has more than one equal sign"
    \/ StartsWith(msg, "Option " \o SplitEq(t)[1] \o " got invalid value: ")

\* the applier calls the option token at the current index can cause: none,
\* parse_flag on it, parse_non_flag on it with the next token, or
\* parse_non_flag on its name with its inline value
CallsOfArg ==
    { Call("parse_flag", Arg, "") }
    \cup (IF index + 1 < Len(args)
          THEN { Call("parse_non_flag", Arg, args[index + 2]) } ELSE { })
    \cup (IF StartsWith(Arg, "--") /\ EqualSigns(Arg) = 1
          THEN { Call("parse_non_flag", "--" \o OptionName(Arg), InlineValue(Arg)) }
          ELSE { })

\* C14: once a token has produced an error, parse_args has returned it and
\* nothing of the parse changes any more (no field, no applier call, no index
\* move, not the error itself); the error is the one of the option token at
\* the index where the parse stopped, the last applier call (if any) is for
\* that token, and no later token was stored in query or files.
C14_FirstErrorStops ==
    /\ [][args_result.kind = "Err" =>
            UNCHANGED << command_args, calls, index, query_parsed,
                         args_result, query_writes >>]_vars
    /\ [](args_result.kind = "Err" =>
            /\ pc \in { "returned", "done" }
            /\ index < Len(args)
            /\ IsOptionToken(Arg)
            /\ IsErrorOf(args_result.msg, Arg)
            /\ calls # << >> => calls[Len(calls)] \in CallsOfArg
            /\ ~query_parsed
            /\ command_args.query = ""
            /\ command_args.files = << >>)

C14_Witness ==
    /\ pc = "done"
    /\ args_result.kind = "Err"
    /\ Len(args) >= 3
    /\ IsUnknownOption(args[2])
    /\ StartsWith(args[3], "--") /\ EqualSigns(args[3]) > 1
    /\ args_result.msg = UnknownOptionError(args[2])

\* C15: once the pattern is captured, every loop iteration appends exactly
\* the current token to the end of files and moves the index by 1; query,
\* after_context, before_context and ignore_case stay, no applier is called
\* and no error or exit is produced, whatever the token is.
C15_CollectingFiles ==
    [][(InLoop /\ query_parsed) =>
         /\ command_args' = [command_args EXCEPT !.files = Append(@, Arg)]
         /\ index' = index + 1
         /\ query_parsed'
         /\ UNCHANGED << pc, args_result, exit_code, stdout, stderr, calls,
                         query_writes >>]_vars

C15_Witness ==
    /\ pc = "done"
    /\ args_result.kind = "Ok"
    /\ Len(command_args.files) = 3
    /\ command_args.files[1] \in HelpOptions
    /\ command_args.files[2] \in ValueOptions
    /\ IsPositional(command_args.files[3])

\* --after-context=n or --before-context=n with a number n
IsInlineValueOption(t) ==
    /\ StartsWith(t, "--")
    /\ EqualSigns(t) = 1
    /\ OptionName(t) \in AfterContextNames \cup BeforeContextNames
    /\ IsNumber(InlineValue(t))

\* C16 (as claimed): a short or bare-long value-taking option followed by its
\* value moves the index by 2 in one iteration, so the value token is never
\* looked at again; a flag or an `=`-form option moves the index by exactly 1;
\* in both cases the loop goes on.
C16_IndexAdvance ==
    [][(InLoop /\ ~query_parsed) =>
         /\ (/\ Arg \in ValueOptions
             /\ index + 1 < Len(args)
             /\ IsNumber(args[index + 2]))
            => (index' = index + 2 /\ pc' = "parse")
         /\ (Arg \in IgnoreCaseOptions \/ IsInlineValueOption(Arg))
            => (index' = index + 1 /\ pc' = "parse")]_vars

\* position j (1-based) of args lies before the pattern
BeforePattern(j) ==
    LET q == FirstPositionalFrom(args, 2) IN q = 0 \/ j < q

\* position j holds an option token other than -h / --help, before the pattern
OptionBeforePattern(j) ==
    /\ BeforePattern(j)
    /\ IsOptionToken(args[j])
    /\ args[j] \notin HelpOptions

OkMeansDefaults ==
    args_result.kind = "Ok" =>
        /\ command_args.after_context = U32(0)
        /\ command_args.before_context = U32(0)
        /\ command_args.ignore_case = FALSE

\* C17 (as claimed): a parse that returns Ok leaves after_context = 0,
\* before_context = 0 and ignore_case = false; every argument list with an
\* option token other than -h / --help before the pattern ends in an error.
C17_OptionsAlwaysFail ==
    /\ OkMeansDefaults
    /\ (/\ pc = "done"
        /\ \E j \in 2..Len(args) : OptionBeforePattern(j))
       => args_result.kind = "Err"

\* C17 (amended): a parse that returns Ok leaves after_context = 0,
\* before_context = 0 and ignore_case = false; every argument list with an
\* option token other than -h / --help before the pattern, and no -h / --help
\* before that token, ends in an error (status 1).
C17_OptionsFailUnlessHelpFirst ==
    /\ OkMeansDefaults
    /\ (/\ pc = "done"
        /\ \E j \in 2..Len(args) :
             /\ OptionBeforePattern(j)
             /\ \A k \in 2..(j - 1) : args[k] \notin HelpOptions)
       => (args_result.kind = "Err" /\ exit_code = 1)

C17_Witness ==
    /\ pc = "done"
    /\ args_result.kind = "Err"
    /\ Len(args) >= 4
    /\ args[2] \in ValueOptions
    /\ IsNumber(args[3])
    /\ IsPositional(args[4])
    /\ command_args = Defaults

Measure ==
    3 * (Len(args) - index)
    + (CASE pc = "parse" -> 2 [] pc = "returned" -> 1 [] OTHER -> 0)

\* C19: parse_args terminates: the index starts at 1 and stays within the
\* list, so token 0 is never read and no read goes past the end (a help exit
\* is caused by the token at the index, not by the program name); every loop
\* iteration that goes on moves the index by 1 or 2; every step brings the end
\* nearer, no state before the end is stuck, and the run ends, in exactly one
\* of Ok, an error, or the help exit.
C19_Terminates ==
    /\ [](/\ index >= 1
          /\ index <= Len(args)
          /\ pc = "parse" /\ index = 1 => (command_args = Defaults /\ calls = << >>)
          /\ HelpShown => (index < Len(args) /\ Arg \in HelpOptions)
          /\ pc = "done" \/ ENABLED Next
          /\ pc = "done" =>
               \/ /\ args_result.kind = "Ok" /\ index = Len(args)
                  /\ StartedOperation /\ stderr = << >>
               \/ /\ args_result.kind = "Err"
                  /\ stdout = << >> /\ stderr # << >>
               \/ /\ HelpShown
                  /\ stdout = << help_string \o "\n" >> /\ stderr = << >>)
    /\ [][Measure' < Measure /\ Measure' >= 0]_vars
    /\ [][(pc = "parse" /\ pc' = "parse") => index' \in { index + 1, index + 2 }]_vars
    /\ <>(pc = "done")

C19_Witness ==
    /\ pc = "done"
    /\ args[1] = AltProgName
    /\ args_result.kind = "Ok"
    /\ index = Len(args)
    /\ Len(args) = 3

\* the decimal numeral t without its leading zeros
RECURSIVE StripZeros(_)
StripZeros(t) ==
    IF Len(t) > 1 /\ CharAt(t, 1) = "0"
    THEN StripZeros(SubSeq(t, 2, Len(t)))
    ELSE t

\* numeral a is greater than numeral b of the same length
GreaterNumeral(a, b) ==
    \E i \in 1..Len(a) :
        /\ DigitVal(CharAt(a, i)) > DigitVal(CharAt(b, i))
        /\ \A j \in 1..(i - 1) : CharAt(a, j) = CharAt(b, j)

\* t is a decimal numeral whose value is greater than 4294967295, read off
\* the text: more digits than the bound, or as many and greater
ExceedsU32(t) ==
    /\ Len(t) > 0
    /\ \A i \in 1..Len(t) : CharAt(t, i) \in Digits
    /\ LET s == StripZeros(t)
       IN  \/ Len(s) > 10
           \/ Len(s) = 10 /\ GreaterNumeral(s, "4294967295")

\* a field of CommandArgs holds a value of 0..4294967295
InU32(v) == v[1] \in 0..(Half - 1) /\ v[2] \in 0..(Half - 1)

\* C20: parse_non_flag called for A/after-context or B/before-context with a
\* decimal value greater than 4294967295 returns the invalid-value error and
\* leaves the fields as they were (no wrap-around modulo 2^32); both context
\* fields always lie in 0..4294967295.
C20_NoWrapAround ==
    /\ [](InU32(command_args.after_context) /\ InU32(command_args.before_context))
    /\ [][Len(calls') > Len(calls) =>
            LET c == calls'[Len(calls')]
            IN  (/\ c.fn = "parse_non_flag"
                 /\ c.option \in AfterContextNames \cup BeforeContextNames
                 /\ ExceedsU32(c.value))
                => /\ args_result' =
                        [kind |-> "Err",
                         msg  |-> option_error_string(c.option, c.value)]
                   /\ command_args' = command_args]_vars

C20_Witness ==
    /\ Len(calls) = 2
    /\ calls[1] = Call("parse_non_flag", "A", "4294967295")
    /\ calls[2] = Call("parse_non_flag", "after-context", "4294967296")
    /\ args_result = [kind |-> "Err",
                      msg  |-> option_error_string("after-context", "4294967296")]
    /\ command_args.after_context = << Half - 1, Half - 1 >>

====
